---- MODULE Spec2Model ----
(***************************************************************************)
(* A model of FileOps.exe (src/src/fileops.cpp), the launcher that hands   *)
(* copy / move / delete requests to the shell's SHFileOperationW, and of   *)
(* the input check of its scripting wrapper (src/src/main.ts).             *)
(*                                                                         *)
(* A std::string is modelled as the sequence of its bytes, a wide string   *)
(* buffer (LPWSTR) as the sequence of its 16-bit code units including the  *)
(* terminating 0.  The standard output is the sequence of the lines        *)
(* written to std::cout (each ended by std::endl or "\n").                 *)
(***************************************************************************)
EXTENDS Integers, Sequences, FiniteSets, TLC

VARIABLES
    pc,                  \* position of the process in main / the function under study
    argi,                \* main: the loop index i (0 once the loop is left)
    showErrorDialog,     \* main: bool showErrorDialog
    action,              \* main: std::string action
    srcPaths,            \* main: std::vector<std::string> srcPaths
    destPaths,           \* main: std::vector<std::string> destPaths
    currentlyProcessing, \* main: std::string currentlyProcessing
    op,                  \* performFileOperation: the SHFILEOPSTRUCTW handed to the shell
    status,              \* performFileOperation: int status
    wasAborted,          \* performFileOperation: op.fAnyOperationsAborted after the call
    shCalls,             \* number of calls of SHFileOperationW so far
    fmtCalls,            \* number of calls of FormatMessageA so far
    dialogs,             \* the MessageBox calls so far, as <<caption, text>> wide strings
    stdout,              \* the lines written to std::cout so far
    exitCode,            \* the value main returned (meaningful once pc = "exited")
    wrapper,             \* main.ts: "none"; validateInput "returned" or "threw"; copy, move or del "launched" or "rejected"
    decoded,             \* the path list a reader of the multi-string op.pFrom gets
    encoded,             \* the lists combileFileNames has been called on so far, in order
    pending,             \* handleStatus: the lines it writes once MessageBox has returned
    launch               \* main.ts: the -ArgumentList string FileOps.exe was started with

vars == <<pc, argi, showErrorDialog, action, srcPaths, destPaths,
          currentlyProcessing, op, status, wasAborted, shCalls, fmtCalls,
          dialogs, stdout, exitCode, wrapper, decoded, encoded, pending,
          launch>>

----------------------------------------------------------------------------
(* Bounds of the model.                                                    *)

\* The largest number of command-line arguments (argc - 1) main is run on.
MaxArgs == 6
\* The longest path list handed directly to the two validators.
MaxPaths == 3
\* The longest path list handed directly to the encoder.
MaxFiles == 2
\* The largest total number of bytes in a path list handed directly to the encoder.
MaxBytes == 4

----------------------------------------------------------------------------
(* Text.  S(str) is the std::string holding the characters of the literal  *)
(* str: the sequence of their ASCII codes.                                 *)

\* The printable ASCII characters of codes 32..95 and 97..126, in code order.
Ascii32 ==
    " !\"#$%&'()*+,-./0123456789:;<=>?@ABCDEFGHIJKLMNOPQRSTUVWXYZ[\\]^_"
Ascii97 ==
    "abcdefghijklmnopqrstuvwxyz{|}~"

\* The position of the one-character string c in str, 0 when it is not there.
IndexOf(c, str) ==
    LET at == {k \in 1..Len(str) : SubSeq(str, k, k) = c}
    IN  IF at = {} THEN 0 ELSE CHOOSE k \in at : TRUE

\* The code of the character c of a string literal.  Only the characters of
\* the two tables and the three escapes have a code here: a byte outside
\* ASCII is written as a number next to the literal, and for any other
\* character the CHOOSE has no value.
Ord(c) ==
    IF c = "\t" THEN 9
    ELSE IF c = "\n" THEN 10
    ELSE IF c = "\r" THEN 13
    ELSE IF IndexOf(c, Ascii32) > 0 THEN 31 + IndexOf(c, Ascii32)
    ELSE 96 + (CHOOSE k \in 1..Len(Ascii97) : SubSeq(Ascii97, k, k) = c)

S(str) == [k \in 1..Len(str) |-> Ord(SubSeq(str, k, k))]

\* The string literals of fileops.cpp.
EmptyString    == S("")
Copy           == S("copy")
Move           == S("move")
Delete         == S("delete")
OptFrom        == S("--from")
OptTo          == S("--to")
OptShowErrors  == S("--show-errors")
DashDash       == S("--")
LineCancelled  == S("cancelled")
LineOk         == S("ok")
HexPrefix      == S("0x")
Zero           == S("0")
CaptionHead    == S("Unable to ")
CaptionMid     == S(" files (ERR ")
CaptionTail    == S(")")
ErrorHead      == S("error ")
ErrorSep       == S(": ")

RECURSIVE Concat(_)
\* The concatenation of a sequence of strings (operator+ / operator<< chains).
Concat(parts) ==
    IF parts = <<>> THEN <<>> ELSE Head(parts) \o Concat(Tail(parts))

----------------------------------------------------------------------------
(* printUsage and inputIsValid.                                            *)

\* The lines printUsage writes: an empty line (the leading "\n"), then three.
printUsage ==
    << <<>>,
       S("usage: (action is one of: copy, move, delete)"),
       S("  FileOps.exe <action> --from <sourcePath> [sourcePath]* --to <directoryPath>"),
       S("  FileOps.exe <action> --from <sourcePath> [sourcePath]* --to <destPath> [destPath]*") >>

\* The messages of inputIsValid.
MsgActionRequired ==
    S("error: action is required")
MsgActionUnknown ==
    S("error: action must be one of: copy, move, delete")
MsgNoSource ==
    S("at least one source path is required")
MsgDeleteDest ==
    S("error: cannot specify destination path when action is delete")
MsgNoDest ==
    S("error: at least one destination path is required when action is not delete")
MsgTooManyDest ==
    S("error: number of destination paths cannot be more than number of source paths")
MsgCountMismatch ==
    S("error: number of source and destination paths must match when more than one destination path is specified")

\* A failed check: the message line, the usage text, and return false.
Reject(msg) == [ret |-> FALSE, out |-> <<msg>> \o printUsage]

\* inputIsValid without its last rule (the counts of a many-to-many request
\* are not compared).
inputIsValid_NoCountMatch(act, src, dest) ==
    IF act = EmptyString THEN
        Reject(MsgActionRequired)
    ELSE IF act # Copy /\ act # Move /\ act # Delete THEN
        Reject(MsgActionUnknown)
    ELSE IF Len(src) = 0 THEN
        Reject(MsgNoSource)
    ELSE IF act = Delete /\ Len(dest) > 0 THEN
        Reject(MsgDeleteDest)
    ELSE IF act # Delete /\ Len(dest) = 0 THEN
        Reject(MsgNoDest)
    ELSE IF Len(dest) > Len(src) THEN
        Reject(MsgTooManyDest)
    ELSE
        [ret |-> TRUE, out |-> <<>>]

\* inputIsValid(action, srcPaths, destPaths): the value returned (ret) and the
\* lines written to std::cout (out), rule by rule in the order of the code.
inputIsValid(act, src, dest) ==
    IF act = EmptyString THEN
        Reject(MsgActionRequired)
    ELSE IF act # Copy /\ act # Move /\ act # Delete THEN
        Reject(MsgActionUnknown)
    ELSE IF Len(src) = 0 THEN
        Reject(MsgNoSource)
    ELSE IF act = Delete /\ Len(dest) > 0 THEN
        Reject(MsgDeleteDest)
    ELSE IF act # Delete /\ Len(dest) = 0 THEN
        Reject(MsgNoDest)
    ELSE IF Len(dest) > Len(src) THEN
        Reject(MsgTooManyDest)
    ELSE IF Len(src) > 1 /\ Len(dest) > 1 /\ Len(src) # Len(dest) THEN
        Reject(MsgCountMismatch)
    ELSE
        [ret |-> TRUE, out |-> <<>>]

----------------------------------------------------------------------------
(* stringToLpwstr: MultiByteToWideChar(CP_UTF8, 0, str.c_str(), -1, ...).  *)

\* U+FFFD, the code unit MultiByteToWideChar writes for a byte sequence that
\* is not UTF-8 (flags 0, Windows Vista and later).
ReplacementChar == 65533

\* str.c_str() as a null-terminated string: the bytes before the first 0 byte.
CStr(str) ==
    LET nul == {k \in 1..Len(str) : str[k] = 0}
    IN  IF nul = {} THEN str
        ELSE SubSeq(str, 1, (CHOOSE k \in nul : \A j \in nul : k <= j) - 1)

\* The bytes that may follow the lead byte b1 of a sequence of two to four
\* bytes (none for a byte that is no lead byte): the ranges exclude overlong
\* forms, surrogates and code points above U+10FFFF.
SecondBytes(b1) ==
    IF b1 \in 194..223 THEN 128..191
    ELSE IF b1 = 224 THEN 160..191
    ELSE IF b1 \in 225..236 \/ b1 \in 238..239 THEN 128..191
    ELSE IF b1 = 237 THEN 128..159
    ELSE IF b1 = 240 THEN 144..191
    ELSE IF b1 \in 241..243 THEN 128..191
    ELSE IF b1 = 244 THEN 128..143
    ELSE {}

\* The number of bytes of the sequence the lead byte b1 starts.
SequenceLength(b1) ==
    IF b1 < 224 THEN 2 ELSE IF b1 < 240 THEN 3 ELSE 4

\* The UTF-16 code units of the code point cp: itself in the basic
\* multilingual plane, a surrogate pair above it.
Utf16Units(cp) ==
    IF cp < 65536 THEN <<cp>>
    ELSE <<55296 + ((cp - 65536) \div 1024), 56320 + ((cp - 65536) % 1024)>>

RECURSIVE Utf8ToWide(_)
\* The UTF-16 code units of the UTF-8 bytes b, as MultiByteToWideChar gives
\* them for CP_UTF8 with no flags: a well-formed sequence of one to four
\* bytes becomes its code point, and each ill-formed run of bytes (a byte
\* that starts no sequence, or the bytes of a sequence up to the one that
\* does not fit) becomes one U+FFFD.
Utf8ToWide(b) ==
    IF b = <<>> THEN <<>>
    ELSE IF b[1] < 128 THEN <<b[1]>> \o Utf8ToWide(Tail(b))
    ELSE
      LET n    == SequenceLength(b[1])
          ok2  == Len(b) >= 2 /\ b[2] \in SecondBytes(b[1])
          ok3  == ok2 /\ Len(b) >= 3 /\ b[3] \in 128..191
          ok4  == ok3 /\ Len(b) >= 4 /\ b[4] \in 128..191
          rest(k) == Utf8ToWide(SubSeq(b, k + 1, Len(b)))
      IN  IF ~ok2 THEN <<ReplacementChar>> \o rest(1)
          ELSE IF n = 2
               THEN <<(b[1] - 192) * 64 + (b[2] - 128)>> \o rest(2)
          ELSE IF ~ok3 THEN <<ReplacementChar>> \o rest(2)
          ELSE IF n = 3
               THEN <<(b[1] - 224) * 4096 + (b[2] - 128) * 64 + (b[3] - 128)>>
                    \o rest(3)
          ELSE IF ~ok4 THEN <<ReplacementChar>> \o rest(3)
          ELSE Utf16Units((b[1] - 240) * 262144 + (b[2] - 128) * 4096
                          + (b[3] - 128) * 64 + (b[4] - 128)) \o rest(4)

\* stringToLpwstr(str): the converted characters and the terminating null
\* that the conversion of a null-terminated input (length -1) appends.
stringToLpwstr(str) == Utf8ToWide(CStr(str)) \o <<0>>

\* wcslen(w): the number of code units before the first null.
wcslen(w) == (CHOOSE k \in 1..Len(w) : w[k] = 0 /\ \A j \in 1..(k - 1) : w[j] # 0) - 1

----------------------------------------------------------------------------
(* combileFileNames, and the reading of the multi-string it builds.        *)

\* The separator '\t' that combileFileNames puts after each file name.
Separator == 9

\* combileFileNames with a loop that stops one character early, so that the
\* separator after the last name is left in place.
combileFileNames_StopsEarly(files) ==
    LET combinedStr == Concat([k \in 1..Len(files) |-> files[k] \o <<Separator>>])
        combined    == stringToLpwstr(combinedStr)
        length      == wcslen(combined)
    IN  [k \in 1..Len(combined) |->
            IF k <= length - 1 /\ combined[k] = Separator THEN 0 ELSE combined[k]]

\* combileFileNames(files): each name followed by '\t', converted to a wide
\* string, every '\t' before the terminating null replaced by a null.
combileFileNames(files) ==
    LET combinedStr == Concat([k \in 1..Len(files) |-> files[k] \o <<Separator>>])
        combined    == stringToLpwstr(combinedStr)
        length      == wcslen(combined)
    IN  [k \in 1..Len(combined) |->
            IF k <= length /\ combined[k] = Separator THEN 0 ELSE combined[k]]

\* The entry that marks a read past the end of a buffer: no wide string.
Overrun == <<-1>>

RECURSIVE DecodeFrom(_, _)
\* The strings of the multi-string buf from position p on: null-terminated
\* strings one after the other, up to an empty string (the double null).  A
\* read past the end of the buffer is marked by the entry Overrun.
DecodeFrom(buf, p) ==
    IF p > Len(buf) THEN <<Overrun>>
    ELSE IF buf[p] = 0 THEN <<>>
    ELSE LET ends == {k \in p..Len(buf) : buf[k] = 0}
         IN  IF ends = {} THEN <<Overrun>>
             ELSE LET e == CHOOSE k \in ends : \A j \in ends : k <= j
                  IN  <<SubSeq(buf, p, e - 1)>> \o DecodeFrom(buf, e + 1)

\* The list of wide strings a reader of the multi-string buf gets.
DecodeMultiString(buf) == DecodeFrom(buf, 1)

\* The UTF-8 bytes of the code point cp.
Utf8Bytes(cp) ==
    IF cp < 128 THEN <<cp>>
    ELSE IF cp < 2048 THEN <<192 + (cp \div 64), 128 + (cp % 64)>>
    ELSE IF cp < 65536
         THEN <<224 + (cp \div 4096), 128 + ((cp \div 64) % 64), 128 + (cp % 64)>>
    ELSE <<240 + (cp \div 262144), 128 + ((cp \div 4096) % 64),
           128 + ((cp \div 64) % 64), 128 + (cp % 64)>>

RECURSIVE WideToUtf8(_)
\* The UTF-8 bytes of the UTF-16 code units w: a high surrogate and the low
\* surrogate after it are one code point.
WideToUtf8(w) ==
    IF w = <<>> THEN <<>>
    ELSE IF w[1] \in 55296..56319 /\ Len(w) >= 2 /\ w[2] \in 56320..57343
         THEN Utf8Bytes(65536 + (w[1] - 55296) * 1024 + (w[2] - 56320))
              \o WideToUtf8(SubSeq(w, 3, Len(w)))
    ELSE Utf8Bytes(w[1]) \o WideToUtf8(Tail(w))

\* The decoded list as byte strings, to compare with the list encoded.
DecodedPaths(list) == [k \in 1..Len(list) |-> WideToUtf8(list[k])]

----------------------------------------------------------------------------
(* getErrorAsString.                                                       *)

\* The table of getErrorAsString: the SHFileOperation codes 0x71 .. 0x10074
\* (written in decimal) and their fixed texts.
errors ==
    (113 :> S("The source and destination files are the same file.")) @@
    (114 :> S("Multiple file paths were specified in the source buffer, but only one destination file path.")) @@
    (115 :> S("Rename operation was specified but the destination path is a different directory. Use the move operation instead.")) @@
    (116 :> S("The source is a root directory, which cannot be moved or renamed.")) @@
    (117 :> S("The operation was canceled by the user, or silently canceled if the appropriate flags were supplied to SHFileOperation.")) @@
    (118 :> S("The destination is a subtree of the source.")) @@
    (120 :> S("Security settings denied access to the source.")) @@
    (121 :> S("The source or destination path exceeded or would exceed MAX_PATH.")) @@
    (122 :> S("The operation involved multiple destination paths, which can fail in the case of a move operation.")) @@
    (124 :> S("The path in the source or destination or both was invalid.")) @@
    (125 :> S("The source and destination have the same parent folder.")) @@
    (126 :> S("The destination path is an existing file.")) @@
    (128 :> S("The destination path is an existing folder.")) @@
    (129 :> S("The name of the file exceeds MAX_PATH.")) @@
    (130 :> S("The destination is a read-only CD-ROM, possibly unformatted.")) @@
    (131 :> S("The destination is a read-only DVD, possibly unformatted.")) @@
    (132 :> S("The destination is a writable CD-ROM, possibly unformatted.")) @@
    (133 :> S("The file involved in the operation is too large for the destination media or file system.")) @@
    (134 :> S("The source is a read-only CD-ROM, possibly unformatted.")) @@
    (135 :> S("The source is a read-only DVD, possibly unformatted.")) @@
    (136 :> S("The source is a writable CD-ROM, possibly unformatted.")) @@
    (183 :> S("MAX_PATH was exceeded during the operation.")) @@
    (1026 :> S("An unknown error occurred. This is typically due to an invalid path in the source or destination. This error does not occur on Windows") \o <<194, 160>> \o S("Vista and later.")) @@
    (65536 :> S("An unspecified error occurred on the destination.")) @@
    (65652 :> S("Destination is a root directory and cannot be renamed."))

\* The texts the system may hold for a code, as FormatMessageA finds them:
\* none (the empty string stands for it), a text with no line break, a text
\* that ends with a line break, as the texts of the system's message table
\* do, and a text with a line break inside as well.  The code takes the
\* text as it is, so the model draws it from these shapes.
SystemTexts ==
    {EmptyString,
     S("Access is denied."),
     S("Access is denied.\r\n"),
     S("two\r\nlines\r\n")}

\* What FormatMessageA(FORMAT_MESSAGE_FROM_SYSTEM, errorCode) hands back in
\* std::string message(messageBuffer, size): the text sysText the system
\* holds for the code, and for a code it holds no text for, size 0 with
\* messageBuffer left NULL, which makes the empty string.
FormatMessageA(errorCode, sysText) == sysText

\* getErrorAsString(errorCode): the string returned (ret) and the number of
\* calls of FormatMessageA made (fmt).  sysText is the system's answer.  The
\* DWORD errorCode is held as the int of the same 32 bits; the codes of the
\* table are all positive.
getErrorAsString(errorCode, sysText) ==
    IF errorCode \in DOMAIN errors
    THEN [ret |-> errors[errorCode], fmt |-> 0]
    ELSE [ret |-> FormatMessageA(errorCode, sysText), fmt |-> 1]

----------------------------------------------------------------------------
(* handleStatus.                                                           *)

\* winerror.h: ERROR_CANCELLED, the status of an operation the user cancelled.
ERROR_CANCELLED == 1223

\* The digits std::hex writes, as a string.
HexDigits == S("0123456789abcdef")

\* The hexadecimal digit of d in 0..15.
HexDigit(d) == <<HexDigits[d + 1]>>

RECURSIVE HexOf(_)
\* The digits of n > 0 in base 16, lower case, as std::hex writes them.
HexOf(n) ==
    IF n = 0 THEN <<>> ELSE HexOf(n \div 16) \o HexDigit(n % 16)

RECURSIVE HexPad(_, _)
\* The last width digits of n >= 0 in base 16, with leading zeros.
HexPad(n, width) ==
    IF width = 0 THEN <<>> ELSE HexPad(n \div 16, width - 1) \o HexDigit(n % 16)

\* sstream << "0x" << std::hex << opReturnCode: an int is written in base 16
\* as its 32-bit two's complement pattern, so a negative value n is written
\* as 2^32 + n = 2^31 + m with m = n + 2^31: a first digit of 8 or more,
\* then the seven digits of the low 28 bits.
errorHexOf(opReturnCode) ==
    HexPrefix \o
    (IF opReturnCode = 0 THEN Zero
     ELSE IF opReturnCode > 0 THEN HexOf(opReturnCode)
     ELSE LET m == (opReturnCode + 2147483647) + 1
          IN  HexDigit(8 + (m \div 268435456)) \o HexPad(m % 268435456, 7))

RECURSIVE Lines(_)
\* The lines of the text written to std::cout: each "\n" ends a line, and a
\* "\r" before it stays in the line.  Characters after the last "\n" are a
\* line too (none here: every text written ends with std::endl).
Lines(text) ==
    IF text = <<>> THEN <<>>
    ELSE LET ends == {k \in 1..Len(text) : text[k] = 10}
         IN  IF ends = {} THEN <<text>>
             ELSE LET nl == CHOOSE k \in ends : \A j \in ends : k <= j
                  IN  <<SubSeq(text, 1, nl - 1)>>
                      \o Lines(SubSeq(text, nl + 1, Len(text)))

\* std::cout << ... << std::endl: the lines writing text and a "\n" gives.
EndLine(text) == Lines(text \o <<10>>)

\* handleStatus without the MessageBox branch of the action delete.
handleStatus_NoDeleteBox(opReturnCode, aborted, act, showDialog, sysText) ==
    IF aborted \/ opReturnCode = ERROR_CANCELLED THEN
        [out |-> <<LineCancelled>>, boxes |-> <<>>, fmt |-> 0]
    ELSE IF opReturnCode = 0 THEN
        [out |-> <<LineOk>>, boxes |-> <<>>, fmt |-> 0]
    ELSE
        LET errorHex     == errorHexOf(opReturnCode)
            got          == getErrorAsString(opReturnCode, sysText)
            errorMessage == got.ret
            caption      == Concat(<<CaptionHead, act, CaptionMid, errorHex, CaptionTail>>)
            lpCaption    == stringToLpwstr(caption)
            lpText       == stringToLpwstr(errorMessage)
            box          == IF act = Copy THEN << <<lpCaption, lpText>> >>
                            ELSE IF act = Move THEN << <<lpCaption, lpText>> >>
                            ELSE <<>>
        IN  [out   |-> EndLine(Concat(<<ErrorHead, errorHex, ErrorSep, errorMessage>>)),
             boxes |-> IF showDialog THEN box ELSE <<>>,
             fmt   |-> got.fmt]

\* handleStatus(opReturnCode, wasAborted, action, showErrorDialog): the lines
\* written to std::cout (out), the MessageBox calls made (boxes, each the
\* <<caption, text>> shown) and the number of FormatMessageA calls (fmt).
\* The calls of boxes come before the lines of out: MessageBox returns when
\* the user has closed the dialog, and the error line is written after it.
handleStatus(opReturnCode, aborted, act, showDialog, sysText) ==
    IF aborted \/ opReturnCode = ERROR_CANCELLED THEN
        [out |-> <<LineCancelled>>, boxes |-> <<>>, fmt |-> 0]
    ELSE IF opReturnCode = 0 THEN
        [out |-> <<LineOk>>, boxes |-> <<>>, fmt |-> 0]
    ELSE
        LET errorHex     == errorHexOf(opReturnCode)
            got          == getErrorAsString(opReturnCode, sysText)
            errorMessage == got.ret
            caption      == Concat(<<CaptionHead, act, CaptionMid, errorHex, CaptionTail>>)
            lpCaption    == stringToLpwstr(caption)
            lpText       == stringToLpwstr(errorMessage)
            box          == IF act = Copy THEN << <<lpCaption, lpText>> >>
                            ELSE IF act = Move THEN << <<lpCaption, lpText>> >>
                            ELSE IF act = Delete THEN << <<lpCaption, lpText>> >>
                            ELSE <<>>
        IN  [out   |-> EndLine(Concat(<<ErrorHead, errorHex, ErrorSep, errorMessage>>)),
             boxes |-> IF showDialog THEN box ELSE <<>>,
             fmt   |-> got.fmt]

----------------------------------------------------------------------------
(* performFileOperation, up to the call of SHFileOperationW.               *)

\* The SHFILEOPSTRUCTW performFileOperation fills in.  wFunc stays
\* "unset" for an action that is none of copy, move and delete.
BuildOp(act, src, dest) ==
    [fFlags |-> {"FOF_ALLOWUNDO", "FOF_NOCONFIRMMKDIR", "FOF_WANTNUKEWARNING"}
                \cup (IF Len(dest) > 1 THEN {"FOF_MULTIDESTFILES"} ELSE {}),
     pFrom  |-> combileFileNames(src),
     pTo    |-> combileFileNames(dest),
     wFunc  |-> IF act = Copy THEN "FO_COPY"
                ELSE IF act = Move THEN "FO_MOVE"
                ELSE IF act = Delete THEN "FO_DELETE"
                ELSE "unset"]

\* The SHFILEOPSTRUCTW before performFileOperation is entered.
NoOp == [fFlags |-> {}, pFrom |-> <<>>, pTo |-> <<>>, wFunc |-> "unset"]

\* performFileOperation calling combileFileNames for the destination only
\* when the action has one.
EncoderCalls_NoDestForDelete(act, src, dest) ==
    IF act = Delete THEN <<src>> ELSE <<src, dest>>

\* The lists performFileOperation calls combileFileNames on, in order:
\* srcPaths for pFrom, then destPaths for pTo, whatever the action.
EncoderCalls(act, src, dest) == <<src, dest>>

----------------------------------------------------------------------------
(* The wrapper's validateInput (main.ts).  A string of the wrapper is the   *)
(* sequence of its UTF-16 code units.  A value of type string | string[]   *)
(* is [str |-> string] or [arr |-> list of strings]; null and undefined    *)
(* are [nul |-> TRUE].                                                     *)

\* The code units String.prototype.trim removes: the WhiteSpace and the
\* LineTerminator code points of ECMAScript (tab, line feed, vertical tab,
\* form feed, carriage return, space, U+00A0, U+1680, U+2000..U+200A,
\* U+2028, U+2029, U+202F, U+205F, U+3000 and U+FEFF).
JsWhiteSpace ==
    {9, 10, 11, 12, 13, 32, 160, 5760} \cup (8192..8202)
    \cup {8232, 8233, 8239, 8287, 12288, 65279}

RECURSIVE TrimStart(_)
TrimStart(s) ==
    IF s # <<>> /\ Head(s) \in JsWhiteSpace THEN TrimStart(Tail(s)) ELSE s

RECURSIVE TrimEnd(_)
TrimEnd(s) ==
    IF s # <<>> /\ s[Len(s)] \in JsWhiteSpace THEN TrimEnd(SubSeq(s, 1, Len(s) - 1)) ELSE s

\* src = src ?? ''; if (typeof src === 'string') src = src.trim();
\* ([] as string[]).concat(src.length > 0 ? src : [])
ToPathList(v) ==
    IF "nul" \in DOMAIN v THEN <<>>
    ELSE IF "str" \in DOMAIN v
         THEN LET trimmed == TrimEnd(TrimStart(v.str))
              IN  IF Len(trimmed) > 0 THEN <<trimmed>> ELSE <<>>
    ELSE v.arr

\* validateInput(action, src, dest): threw is TRUE when it throws, and
\* otherwise srcPaths and destPaths are the lists it returns.
validateInput(act, src, dest) ==
    LET srcList  == ToPathList(src)
        destList == ToPathList(dest)
        threw    == \/ Len(srcList) = 0
                    \/ act # Delete /\ Len(destList) = 0
                    \/ Len(destList) > Len(srcList)
                    \/ Len(srcList) > 1 /\ Len(destList) > 1 /\ Len(srcList) # Len(destList)
    IN  [threw |-> threw, srcPaths |-> srcList, destPaths |-> destList]

\* validateInput without its last rule, the one on lists of unequal length.
validateInput_NoCountMatch(act, src, dest) ==
    LET srcList  == ToPathList(src)
        destList == ToPathList(dest)
        threw    == \/ Len(srcList) = 0
                    \/ act # Delete /\ Len(destList) = 0
                    \/ Len(destList) > Len(srcList)
    IN  [threw |-> threw, srcPaths |-> srcList, destPaths |-> destList]

\* The words of the argument string that are no literal of the launcher.
ArgsFrom == S(" --from ")
ArgsTo == S(" --to ")
Space == S(" ")

\* '`"' + p + '`"': the path between two PowerShell-escaped double quotes
\* (a backtick, code 96, and a double quote, code 34).
QuotePath(p) == <<96, 34>> \o p \o <<96, 34>>

RECURSIVE JoinQuoted(_)
\* paths.map((p) => '`"' + p + '`"').join(' ')
JoinQuoted(paths) ==
    IF paths = <<>> THEN <<>>
    ELSE IF Len(paths) = 1 THEN QuotePath(paths[1])
    ELSE QuotePath(paths[1]) \o Space \o JoinQuoted(Tail(paths))

\* Object.assign({ showDialogOnError: true }, options).showDialogOnError as
\* a condition: options is <<>> when it has no such property and <<v>> when
\* the property is v, one of "true", "false" and "undefined" (a property
\* that is there replaces the default, whatever its value).
ShowDialogOnError(options) ==
    IF options = <<>> THEN TRUE ELSE options[1] = "true"

\* The template `<action> ${showDialogOnError ? '--show-errors' : ''}`: the
\* space after the action is there in both cases.
ArgsHead(act, options) ==
    act \o Space \o (IF ShowDialogOnError(options) THEN OptShowErrors ELSE EmptyString)

\* copy(src, dest, options): rejected is TRUE when validateInput throws (the
\* promise is rejected and nothing is started), and otherwise args is the
\* -ArgumentList string FileOps.exe is started with.
copy(src, dest, options) ==
    LET v == validateInput(Copy, src, dest)
    IN  IF v.threw THEN [rejected |-> TRUE, args |-> <<>>]
        ELSE [rejected |-> FALSE,
              args |-> Concat(<<ArgsHead(Copy, options), ArgsFrom, JoinQuoted(v.srcPaths),
                                ArgsTo, JoinQuoted(v.destPaths)>>)]

\* move(src, dest, options)
move(src, dest, options) ==
    LET v == validateInput(Move, src, dest)
    IN  IF v.threw THEN [rejected |-> TRUE, args |-> <<>>]
        ELSE [rejected |-> FALSE,
              args |-> Concat(<<ArgsHead(Move, options), ArgsFrom, JoinQuoted(v.srcPaths),
                                ArgsTo, JoinQuoted(v.destPaths)>>)]

\* del(src, options): validateInput is handed the empty destination list.
del(src, options) ==
    LET v == validateInput(Delete, src, [arr |-> <<>>])
    IN  IF v.threw THEN [rejected |-> TRUE, args |-> <<>>]
        ELSE [rejected |-> FALSE,
              args |-> Concat(<<ArgsHead(Delete, options), ArgsFrom, JoinQuoted(v.srcPaths)>>)]

----------------------------------------------------------------------------
(* The inputs of the model.                                                *)

\* The command-line arguments main is run on: the action words and a word
\* that is no action, the options and an unknown option, an empty argument
\* and two paths.
ArgTokens ==
    {Copy, Move, Delete, S("rename"),
     OptFrom, OptTo, OptShowErrors, S("--verbose"),
     EmptyString, S("a")}

\* The statuses SHFileOperationW returns in the model: success, the
\* cancellation, a code of the table (0x71) and two codes that are not in
\* the table (0x5, the system's ERROR_ACCESS_DENIED, and 0x12345).
ShellStatuses == {0, ERROR_CANCELLED, 113, 5, 74565}

\* The sequences over set of length at most n.
SeqsUpTo(set, n) == UNION {[1..k -> set] : k \in 0..n}

----------------------------------------------------------------------------
(* main, step by step.                                                     *)

Init ==
    /\ pc = "parse"
    /\ argi = 1
    /\ showErrorDialog = FALSE
    /\ action = EmptyString
    /\ srcPaths = <<>>
    /\ destPaths = <<>>
    /\ currentlyProcessing = "action"
    /\ op = NoOp
    /\ status = 0
    /\ wasAborted = FALSE
    /\ shCalls = 0
    /\ fmtCalls = 0
    /\ dialogs = <<>>
    /\ stdout = <<>>
    /\ exitCode = 0
    /\ wrapper = "none"
    /\ decoded = <<>>
    /\ encoded = <<>>
    /\ pending = <<>>
    /\ launch = <<>>

\* One turn of the loop over argv[1 .. argc-1], on the argument arg.
ParseArg ==
    /\ pc = "parse"
    /\ argi <= MaxArgs
    /\ \E arg \in ArgTokens :
        /\ argi' = argi + 1
        /\ IF arg = OptFrom THEN
               /\ currentlyProcessing' = "from"
               /\ UNCHANGED <<showErrorDialog, action, srcPaths, destPaths>>
           ELSE IF arg = OptTo THEN
               /\ currentlyProcessing' = "to"
               /\ UNCHANGED <<showErrorDialog, action, srcPaths, destPaths>>
           ELSE IF arg = OptShowErrors THEN
               /\ showErrorDialog' = TRUE
               /\ UNCHANGED <<currentlyProcessing, action, srcPaths, destPaths>>
           ELSE IF Len(arg) >= 2 /\ SubSeq(arg, 1, 2) = DashDash THEN
               UNCHANGED <<currentlyProcessing, showErrorDialog, action, srcPaths, destPaths>>
           ELSE IF currentlyProcessing = "action" THEN
               /\ action' = arg
               /\ UNCHANGED <<currentlyProcessing, showErrorDialog, srcPaths, destPaths>>
           ELSE IF currentlyProcessing = "from" THEN
               /\ srcPaths' = Append(srcPaths, arg)
               /\ UNCHANGED <<currentlyProcessing, showErrorDialog, action, destPaths>>
           ELSE
               /\ destPaths' = Append(destPaths, arg)
               /\ UNCHANGED <<currentlyProcessing, showErrorDialog, action, srcPaths>>
    /\ UNCHANGED <<pc, op, status, wasAborted, shCalls, fmtCalls, dialogs,
                   stdout, exitCode, wrapper, decoded, encoded,
                   pending, launch>>

\* The loop ends: i = argc, and i goes out of scope.
ParseEnd ==
    /\ pc = "parse"
    /\ pc' = "validate"
    /\ argi' = 0
    /\ UNCHANGED <<showErrorDialog, action, srcPaths, destPaths,
                   currentlyProcessing, op, status, wasAborted, shCalls,
                   fmtCalls, dialogs, stdout, exitCode, wrapper, decoded, encoded,
                   pending, launch>>

\* main without the return on a failed check: it goes on to
\* performFileOperation whatever inputIsValid returned.
Validate_NoReturn ==
    /\ pc = "validate"
    /\ LET r == inputIsValid(action, srcPaths, destPaths)
       IN  stdout' = stdout \o r.out
    /\ pc' = "perform"
    /\ UNCHANGED <<argi, showErrorDialog, action, srcPaths, destPaths,
                   currentlyProcessing, op, status, wasAborted, shCalls,
                   fmtCalls, dialogs, exitCode, wrapper, decoded, encoded,
                   pending, launch>>

\* if (!inputIsValid(action, srcPaths, destPaths)) return 1;
Validate ==
    /\ pc = "validate"
    /\ LET r == inputIsValid(action, srcPaths, destPaths)
       IN  /\ stdout' = stdout \o r.out
           /\ IF r.ret
              THEN pc' = "perform" /\ UNCHANGED exitCode
              ELSE pc' = "exited" /\ exitCode' = 1
    /\ UNCHANGED <<argi, showErrorDialog, action, srcPaths, destPaths,
                   currentlyProcessing, op, status, wasAborted, shCalls,
                   fmtCalls, dialogs, wrapper, decoded, encoded,
                   pending, launch>>

\* performFileOperation: the flags, pFrom, pTo and wFunc are set.
Prepare ==
    /\ pc = "perform"
    /\ op' = BuildOp(action, srcPaths, destPaths)
    /\ encoded' = encoded \o EncoderCalls(action, srcPaths, destPaths)
    /\ pc' = "call"
    /\ UNCHANGED <<argi, showErrorDialog, action, srcPaths, destPaths,
                   currentlyProcessing, status, wasAborted, shCalls, fmtCalls,
                   dialogs, stdout, exitCode, wrapper, decoded,
                   pending, launch>>

\* int status = SHFileOperationW(&op): the shell reads the source list from
\* op.pFrom, and hands back a status and op.fAnyOperationsAborted.
CallShell ==
    /\ pc = "call"
    /\ \E st \in ShellStatuses, ab \in BOOLEAN :
        /\ status' = st
        /\ wasAborted' = ab
    /\ shCalls' = shCalls + 1
    /\ decoded' = DecodeMultiString(op.pFrom)
    /\ pc' = "report"
    /\ UNCHANGED <<argi, showErrorDialog, action, srcPaths, destPaths,
                   currentlyProcessing, op, fmtCalls, dialogs, stdout,
                   exitCode, wrapper, encoded,
                   pending, launch>>

\* handleStatus(status, op.fAnyOperationsAborted, action, showErrorDialog),
\* to its end when it shows no dialog, and otherwise up to the call of
\* MessageBox, which blocks: the message has been looked up and the dialog
\* is on the screen, the error line is still to be written.
Report ==
    /\ pc = "report"
    /\ \E sysText \in SystemTexts :
        LET h == handleStatus(status, wasAborted, action, showErrorDialog, sysText)
        IN  /\ dialogs' = dialogs \o h.boxes
            /\ fmtCalls' = fmtCalls + h.fmt
            /\ IF h.boxes = <<>>
               THEN /\ stdout' = stdout \o h.out
                    /\ pending' = <<>>
                    /\ pc' = "return"
               ELSE /\ stdout' = stdout
                    /\ pending' = h.out
                    /\ pc' = "dialog"
    /\ UNCHANGED <<argi, showErrorDialog, action, srcPaths, destPaths,
                   currentlyProcessing, op, status, wasAborted, shCalls,
                   exitCode, wrapper, decoded, encoded, launch>>

\* MessageBox returns: the user closed the dialog, and handleStatus frees
\* the two wide strings and writes the error line.
CloseDialog ==
    /\ pc = "dialog"
    /\ stdout' = stdout \o pending
    /\ pending' = <<>>
    /\ pc' = "return"
    /\ UNCHANGED <<argi, showErrorDialog, action, srcPaths, destPaths,
                   currentlyProcessing, op, status, wasAborted, shCalls,
                   fmtCalls, dialogs, exitCode, wrapper, decoded, encoded,
                   launch>>

\* performFileOperation returning the cancellation code whenever the
\* operation was aborted.
Return_CancelledOnAbort ==
    /\ pc = "return"
    /\ op' = [op EXCEPT !.pFrom = <<>>, !.pTo = <<>>]
    /\ exitCode' = IF wasAborted THEN ERROR_CANCELLED ELSE status
    /\ pc' = "exited"
    /\ UNCHANGED <<argi, showErrorDialog, action, srcPaths, destPaths,
                   currentlyProcessing, status, wasAborted, shCalls, fmtCalls,
                   dialogs, stdout, wrapper, decoded, encoded,
                   pending, launch>>

\* performFileOperation returning 0 for a cancelled operation, which
\* handleStatus does not report as an error.
Return_ZeroOnCancel ==
    /\ pc = "return"
    /\ op' = [op EXCEPT !.pFrom = <<>>, !.pTo = <<>>]
    /\ exitCode' = IF wasAborted \/ status = ERROR_CANCELLED THEN 0 ELSE status
    /\ pc' = "exited"
    /\ UNCHANGED <<argi, showErrorDialog, action, srcPaths, destPaths,
                   currentlyProcessing, status, wasAborted, shCalls, fmtCalls,
                   dialogs, stdout, wrapper, decoded, encoded,
                   pending, launch>>

\* delete[] pFrom; delete[] pTo; return status; and main returns that value.
Return ==
    /\ pc = "return"
    /\ op' = [op EXCEPT !.pFrom = <<>>, !.pTo = <<>>]
    /\ exitCode' = status
    /\ pc' = "exited"
    /\ UNCHANGED <<argi, showErrorDialog, action, srcPaths, destPaths,
                   currentlyProcessing, status, wasAborted, shCalls, fmtCalls,
                   dialogs, stdout, wrapper, decoded, encoded,
                   pending, launch>>

Next ==
    \/ ParseArg \/ ParseEnd \/ Validate \/ Prepare \/ CallShell \/ Report
    \/ CloseDialog \/ Return

Spec == Init /\ [][Next]_vars

----------------------------------------------------------------------------
(* The two validators on the same input: inputIsValid in the launcher and  *)
(* validateInput in the wrapper, each handed the action and the two path   *)
(* lists directly.                                                         *)

\* The action tokens and the path strings the validators are handed.
ActionInputs == {Copy, Move, Delete, S("rename"), EmptyString}
PathInputs == {EmptyString, S("a")}

InitValidate ==
    /\ pc = "validate"
    /\ argi = 0
    /\ showErrorDialog = FALSE
    /\ action \in ActionInputs
    /\ srcPaths \in SeqsUpTo(PathInputs, MaxPaths)
    /\ destPaths \in SeqsUpTo(PathInputs, MaxPaths)
    /\ currentlyProcessing = "action"
    /\ op = NoOp
    /\ status = 0
    /\ wasAborted = FALSE
    /\ shCalls = 0
    /\ fmtCalls = 0
    /\ dialogs = <<>>
    /\ stdout = <<>>
    /\ exitCode = 0
    /\ wrapper = "none"
    /\ decoded = <<>>
    /\ encoded = <<>>
    /\ pending = <<>>
    /\ launch = <<>>

\* validateInput(action, srcPaths, destPaths) on the two lists as arrays.
WrapperValidate ==
    /\ wrapper = "none"
    /\ wrapper' = IF validateInput(action, [arr |-> srcPaths], [arr |-> destPaths]).threw
                  THEN "threw" ELSE "returned"
    /\ UNCHANGED <<pc, argi, showErrorDialog, action, srcPaths, destPaths,
                   currentlyProcessing, op, status, wasAborted, shCalls,
                   fmtCalls, dialogs, stdout, exitCode, decoded, encoded,
                   pending, launch>>

\* The options the public functions of the wrapper are handed.
OptionsInputs == {<<>>, <<"true">>, <<"false">>, <<"undefined">>}

\* copy(srcPaths, destPaths, options), up to the start of FileOps.exe.
WrapperCopy ==
    /\ wrapper = "none"
    /\ action = Copy
    /\ \E options \in OptionsInputs :
        LET r == copy([arr |-> srcPaths], [arr |-> destPaths], options)
        IN  /\ wrapper' = IF r.rejected THEN "rejected" ELSE "launched"
            /\ launch' = r.args
    /\ UNCHANGED <<pc, argi, showErrorDialog, action, srcPaths, destPaths,
                   currentlyProcessing, op, status, wasAborted, shCalls,
                   fmtCalls, dialogs, stdout, exitCode, decoded, encoded,
                   pending>>

\* move(srcPaths, destPaths, options), up to the start of FileOps.exe.
WrapperMove ==
    /\ wrapper = "none"
    /\ action = Move
    /\ \E options \in OptionsInputs :
        LET r == move([arr |-> srcPaths], [arr |-> destPaths], options)
        IN  /\ wrapper' = IF r.rejected THEN "rejected" ELSE "launched"
            /\ launch' = r.args
    /\ UNCHANGED <<pc, argi, showErrorDialog, action, srcPaths, destPaths,
                   currentlyProcessing, op, status, wasAborted, shCalls,
                   fmtCalls, dialogs, stdout, exitCode, decoded, encoded,
                   pending>>

\* del(srcPaths, options), up to the start of FileOps.exe: del has no
\* destination parameter, so it is the request with no destination path.
WrapperDel ==
    /\ wrapper = "none"
    /\ action = Delete
    /\ destPaths = <<>>
    /\ \E options \in OptionsInputs :
        LET r == del([arr |-> srcPaths], options)
        IN  /\ wrapper' = IF r.rejected THEN "rejected" ELSE "launched"
            /\ launch' = r.args
    /\ UNCHANGED <<pc, argi, showErrorDialog, action, srcPaths, destPaths,
                   currentlyProcessing, op, status, wasAborted, shCalls,
                   fmtCalls, dialogs, stdout, exitCode, decoded, encoded,
                   pending>>

NextValidate ==
    \/ Validate \/ WrapperValidate
    \/ WrapperCopy \/ WrapperMove \/ WrapperDel

SpecValidate == InitValidate /\ [][NextValidate]_vars

----------------------------------------------------------------------------
(* The encoder on a path list of its own: the list is drawn byte by byte,  *)
(* encoded by combileFileNames, and read back as the shell reads it.       *)

\* The bytes of the paths: the separator '\t', the letter a, the two bytes
\* 0xC3 0xA9 of the UTF-8 encoding of U+00E9, and the bytes 0xE2 0x82 that
\* make, with 0xA9, the UTF-8 encoding of U+20A9.
PathBytes == {Separator, 97, 195, 169, 226, 130}

RECURSIVE TotalBytes(_)
TotalBytes(files) ==
    IF files = <<>> THEN 0 ELSE Len(Head(files)) + TotalBytes(Tail(files))

InitEncode ==
    /\ pc = "input"
    /\ argi = 0
    /\ showErrorDialog = FALSE
    /\ action = EmptyString
    /\ srcPaths = <<>>
    /\ destPaths = <<>>
    /\ currentlyProcessing = "action"
    /\ op = NoOp
    /\ status = 0
    /\ wasAborted = FALSE
    /\ shCalls = 0
    /\ fmtCalls = 0
    /\ dialogs = <<>>
    /\ stdout = <<>>
    /\ exitCode = 0
    /\ wrapper = "none"
    /\ decoded = <<>>
    /\ encoded = <<>>
    /\ pending = <<>>
    /\ launch = <<>>

\* The input list gets one more (so far empty) path.
InputPath ==
    /\ pc = "input"
    /\ Len(srcPaths) < MaxFiles
    /\ srcPaths' = Append(srcPaths, <<>>)
    /\ UNCHANGED <<pc, argi, showErrorDialog, action, destPaths,
                   currentlyProcessing, op, status, wasAborted, shCalls,
                   fmtCalls, dialogs, stdout, exitCode, wrapper, decoded, encoded,
                   pending, launch>>

\* The last path of the input list gets one more byte.
InputByte ==
    /\ pc = "input"
    /\ srcPaths # <<>>
    /\ TotalBytes(srcPaths) < MaxBytes
    /\ \E b \in PathBytes :
        srcPaths' = [srcPaths EXCEPT ![Len(srcPaths)] = Append(@, b)]
    /\ UNCHANGED <<pc, argi, showErrorDialog, action, destPaths,
                   currentlyProcessing, op, status, wasAborted, shCalls,
                   fmtCalls, dialogs, stdout, exitCode, wrapper, decoded, encoded,
                   pending, launch>>

\* LPWSTR pFrom = combileFileNames(srcPaths);
Encode ==
    /\ pc = "input"
    /\ op' = [op EXCEPT !.pFrom = combileFileNames(srcPaths)]
    /\ encoded' = Append(encoded, srcPaths)
    /\ pc' = "encoded"
    /\ UNCHANGED <<argi, showErrorDialog, action, srcPaths, destPaths,
                   currentlyProcessing, status, wasAborted, shCalls, fmtCalls,
                   dialogs, stdout, exitCode, wrapper, decoded,
                   pending, launch>>

\* The multi-string is split at its null terminators, up to the double null.
Decode ==
    /\ pc = "encoded"
    /\ decoded' = DecodeMultiString(op.pFrom)
    /\ pc' = "decoded"
    /\ UNCHANGED <<argi, showErrorDialog, action, srcPaths, destPaths,
                   currentlyProcessing, op, status, wasAborted, shCalls,
                   fmtCalls, dialogs, stdout, exitCode, wrapper, encoded,
                   pending, launch>>

NextEncode == InputPath \/ InputByte \/ Encode \/ Decode

SpecEncode == InitEncode /\ [][NextEncode]_vars

----------------------------------------------------------------------------
(* The claims.                                                             *)

\* The five rules of the Input Validator, as the specification states them.
FiveRules(act, src, dest) ==
    /\ act \in {Copy, Move, Delete}
    /\ Len(src) >= 1
    /\ (Len(dest) = 0) <=> (act = Delete)
    /\ Len(dest) <= Len(src)
    /\ (Len(src) > 1 /\ Len(dest) > 1) => Len(src) = Len(dest)

\* The invariant of an OperationRequest.
RequestInvariant(act, src, dest) ==
    /\ (Len(dest) = 0) <=> (act = Delete)
    /\ Len(dest) <= Len(src)
    /\ (Len(src) > 1 /\ Len(dest) > 1) => Len(src) = Len(dest)

\* C1: once inputIsValid has run on an action token and two path lists, it
\* has accepted (main goes on to performFileOperation) exactly when the five
\* rules hold, and every accepted request satisfies the OperationRequest
\* invariant.
C1_ValidatorAcceptsExactlyTheFiveRules ==
    pc \in {"perform", "exited"} =>
        /\ (pc = "perform") <=> FiveRules(action, srcPaths, destPaths)
        /\ (pc = "perform") => RequestInvariant(action, srcPaths, destPaths)

\* C1: three sources and one destination have been accepted.
C1_Witness ==
    /\ pc = "perform"
    /\ action = Copy
    /\ Len(srcPaths) = 3
    /\ Len(destPaths) = 1

\* The lines of the standard output, as the specification gives them.
ExpectedUsage  == S("usage: (action is one of: copy, move, delete)")
ExpectedOk     == S("ok")
ExpectedCancel == S("cancelled")
ExpectedError  ==
    (113   :> S("error 0x71: The source and destination files are the same file.")) @@
    (5     :> S("error 0x5: ")) @@
    (74565 :> S("error 0x12345: "))

\* The string s begins with the string prefix.
StartsWith(s, prefix) ==
    Len(s) >= Len(prefix) /\ SubSeq(s, 1, Len(prefix)) = prefix

\* The shell has been called and handleStatus has returned.
Reported == pc \in {"return", "exited"} /\ shCalls = 1

\* handleStatus is in its call of MessageBox: the dialog is on the screen.
DialogOpen == pc = "dialog"

\* The outcome of the operation, from the status and the aborted flag.
Cancelled == wasAborted \/ status = ERROR_CANCELLED
Failed    == status # 0 /\ status # ERROR_CANCELLED /\ ~wasAborted

\* C2: SHFileOperationW is called at most once, and only once the check of
\* the input has passed; a run whose input fails the check ends with the
\* usage text on the standard output, exit code 1 and no call at all; a run
\* whose input passes ends with exactly one call.
C2_NoShellCallOnInvalidInput ==
    /\ shCalls <= 1
    /\ pc \in {"parse", "validate", "perform", "call"} => shCalls = 0
    /\ shCalls = 1 => FiveRules(action, srcPaths, destPaths)
    /\ (pc \notin {"parse", "validate"} /\ ~FiveRules(action, srcPaths, destPaths)) =>
            /\ pc = "exited"
            /\ exitCode = 1
            /\ shCalls = 0
            /\ Len(stdout) = 5
            /\ stdout[3] = ExpectedUsage
    /\ (pc = "exited" /\ FiveRules(action, srcPaths, destPaths)) => shCalls = 1

\* C2: a run without a source path has ended with the usage text, exit code 1.
C2_Witness ==
    /\ pc = "exited"
    /\ action = Copy
    /\ srcPaths = <<>>
    /\ exitCode = 1
    /\ shCalls = 0
    /\ stdout[3] = ExpectedUsage

\* C3: a run that passed the check exits with the status SHFileOperationW
\* returned, whatever the status, the aborted flag and the option
\* --show-errors.
C3_ExitCodeIsRawStatus ==
    (pc = "exited" /\ shCalls = 1) => exitCode = status

\* C3: a run has exited with the failure code 0x12345 after showing a dialog.
C3_Witness ==
    /\ pc = "exited"
    /\ shCalls = 1
    /\ status = 74565
    /\ Len(dialogs) = 1
    /\ exitCode = 74565

\* C4, as claimed: whenever the outcome is Cancelled (the status is the
\* cancellation code or the aborted flag is set), the exit code is the
\* cancellation code.
C4_Original ==
    (pc = "exited" /\ shCalls = 1 /\ Cancelled) => exitCode = ERROR_CANCELLED

\* C4, amended: when the status is the cancellation code, `cancelled` is
\* printed and the exit code is the cancellation code; when only the aborted
\* flag is set, `cancelled` is printed and the exit code is the raw status,
\* which is not the cancellation code.
C4_CancelledExitCode ==
    (pc = "exited" /\ shCalls = 1) =>
        /\ status = ERROR_CANCELLED =>
                exitCode = ERROR_CANCELLED /\ stdout = <<ExpectedCancel>>
        /\ (wasAborted /\ status # ERROR_CANCELLED) =>
                /\ stdout = <<ExpectedCancel>>
                /\ exitCode = status
                /\ exitCode # ERROR_CANCELLED

\* C4: an aborted operation of status 0 has printed `cancelled` and exited 0.
C4_Witness ==
    /\ pc = "exited"
    /\ shCalls = 1
    /\ wasAborted
    /\ status = 0
    /\ stdout = <<ExpectedCancel>>
    /\ exitCode = 0

\* The one line handleStatus prints is the error line of the status.
IsErrorLine(line) ==
    status \in DOMAIN ExpectedError /\ StartsWith(line, ExpectedError[status])

\* Exactly one line is printed, `cancelled` for a cancelled operation and an
\* error line for a failed one, and an error line for no other.
OneLinePerOutcome ==
    /\ Len(stdout) = 1
    /\ Cancelled => stdout[1] = ExpectedCancel
    /\ Failed => IsErrorLine(stdout[1])
    /\ ~Failed => stdout[1] \in {ExpectedOk, ExpectedCancel}

\* C5, as claimed: whenever the status is 0 the line printed is `ok` and the
\* exit code is 0, and in every case exactly one of the three lines is
\* printed, the error line only for a failure.
C5_Claim ==
    Reported =>
        /\ status = 0 => stdout = <<ExpectedOk>> /\ (pc = "exited" => exitCode = 0)
        /\ OneLinePerOutcome

\* C6: the error dialog is shown at most once; once handleStatus has run it
\* has been shown exactly when --show-errors was given and the operation
\* failed; while it is open --show-errors was given and the operation
\* failed; and it is shown at no other point: not before the report, and
\* not in a run that fails the check of its input.
C6_DialogExactlyOnFailureWithShowErrors ==
    /\ Len(dialogs) <= 1
    /\ Reported => ((Len(dialogs) = 1) <=> (showErrorDialog /\ Failed))
    /\ DialogOpen => (Len(dialogs) = 1 /\ showErrorDialog /\ Failed)
    /\ (~Reported /\ ~DialogOpen) => dialogs = <<>>

\* C6: a failed delete run with --show-errors has shown the dialog.
C6_Witness ==
    /\ Reported
    /\ action = Delete
    /\ showErrorDialog
    /\ Failed
    /\ Len(dialogs) = 1

RECURSIVE IsUtf8(_)
\* The bytes b are well-formed UTF-8: sequences of one to four bytes, none
\* overlong, none of a surrogate, none above U+10FFFF.
IsUtf8(b) ==
    \/ b = <<>>
    \/ b[1] < 128 /\ IsUtf8(Tail(b))
    \/ /\ b[1] \in 194..223
       /\ Len(b) >= 2
       /\ b[2] \in 128..191
       /\ IsUtf8(SubSeq(b, 3, Len(b)))
    \/ /\ b[1] \in 224..239
       /\ Len(b) >= 3
       /\ b[2] \in 128..191 /\ b[3] \in 128..191
       /\ b[1] = 224 => b[2] >= 160
       /\ b[1] = 237 => b[2] <= 159
       /\ IsUtf8(SubSeq(b, 4, Len(b)))
    \/ /\ b[1] \in 240..244
       /\ Len(b) >= 4
       /\ b[2] \in 128..191 /\ b[3] \in 128..191 /\ b[4] \in 128..191
       /\ b[1] = 240 => b[2] >= 144
       /\ b[1] = 244 => b[2] <= 143
       /\ IsUtf8(SubSeq(b, 5, Len(b)))

\* No path of the list is the empty string.
NoEmptyPath(files) == \A k \in 1..Len(files) : files[k] # <<>>

\* No path of the list holds the separator character.
NoSeparator(files) ==
    \A k \in 1..Len(files) : \A j \in 1..Len(files[k]) : files[k][j] # Separator

\* C7, as claimed: a list of non-empty paths, encoded by combileFileNames
\* and split again at the null terminators, comes back as the same list.
C7_Original ==
    (pc = "decoded" /\ NoEmptyPath(srcPaths)) => DecodedPaths(decoded) = srcPaths

\* C7, amended: a list of non-empty paths that are well-formed UTF-8 and
\* hold no tab character (the separator), encoded by combileFileNames and
\* split again at the null terminators, comes back as the same list.
C7_RoundTripWithoutSeparator ==
    (/\ pc = "decoded"
     /\ NoEmptyPath(srcPaths)
     /\ NoSeparator(srcPaths)
     /\ \A k \in 1..Len(srcPaths) : IsUtf8(srcPaths[k]))
        => DecodedPaths(decoded) = srcPaths

\* C7: the list of the two paths "\xE2\x82\xA9" (U+20A9) and "a" has come
\* back unchanged.
C7_Witness ==
    /\ pc = "decoded"
    /\ srcPaths = << <<226, 130, 169>>, <<97>> >>
    /\ decoded = << <<8361>>, <<97>> >>
    /\ DecodedPaths(decoded) = srcPaths

\* C8, as claimed: for a code of the table getErrorAsString returns the text
\* of the table without a call of the system formatter (0x71 gives "The
\* source and destination files are the same file."); for any other code it
\* returns the text of the system formatter, which is never empty.
C8_Claim ==
    (Reported /\ Failed) =>
        /\ status \in DOMAIN errors => fmtCalls = 0
        /\ status = 113 => stdout[1] = ExpectedError[113]
        /\ status \notin DOMAIN errors =>
                /\ fmtCalls = 1
                /\ IsErrorLine(stdout[1])
                /\ Len(stdout[1]) > Len(ExpectedError[status])

\* C9, as claimed: on an action of copy, move and delete and the same two
\* path lists, validateInput returns (called on its own, or by copy, move
\* or del, which then starts the launcher) exactly when inputIsValid
\* accepts.
C9_Claim ==
    (/\ action \in {Copy, Move, Delete}
     /\ wrapper # "none"
     /\ pc \in {"perform", "exited"})
        => ((wrapper \in {"returned", "launched"}) <=> (pc = "perform"))

\* C10, as claimed: a request that has passed the check holds no empty path,
\* neither among its sources nor among its destinations.
C10_Claim ==
    pc \in {"perform", "call", "report", "dialog", "return"} =>
        NoEmptyPath(srcPaths) /\ NoEmptyPath(destPaths)

\* C11, as claimed: in a run that passes the check, every list
\* combileFileNames is called on has at least one entry.
C11_Original ==
    \A k \in 1..Len(encoded) : Len(encoded[k]) >= 1

\* C11, amended: combileFileNames is called only in a run that passes the
\* check, and there exactly twice: on the source list, which has at least
\* one entry, and then on the destination list, which has at least one
\* entry for copy and move and is empty for delete, where it is encoded as
\* a single null.
C11_EncoderListsAfterValidation ==
    /\ pc \in {"parse", "validate", "perform"} => encoded = <<>>
    /\ (pc = "exited" /\ shCalls = 0) => encoded = <<>>
    /\ encoded # <<>> =>
        /\ FiveRules(action, srcPaths, destPaths)
        /\ encoded = <<srcPaths, destPaths>>
        /\ Len(encoded[1]) >= 1
        /\ action \in {Copy, Move} => Len(encoded[2]) >= 1
        /\ action = Delete =>
                /\ encoded[2] = <<>>
                /\ pc \in {"call", "report", "dialog", "return"} => op.pTo = <<0>>

\* C11: a delete of one path has had its empty destination list encoded.
C11_Witness ==
    /\ pc = "call"
    /\ action = Delete
    /\ Len(srcPaths) = 1
    /\ encoded = <<srcPaths, <<>> >>
    /\ op.pTo = <<0>>

====
